---- MODULE Spec2Model ----
(***************************************************************************)
(* Model of rust/feature-flags/src/client/redis.rs: the RedisClient        *)
(* wrapper (zrangebyscore, hincrby, get, set, del, hget) talking to a      *)
(* remote store, with the serde_pickle envelope of get/set, the error      *)
(* conversions done by `?`, and the 10 ms timeout race of every command.   *)
(*                                                                         *)
(* Strings and byte vectors are sequences of byte values (ASCII codes).    *)
(***************************************************************************)
EXTENDS Integers, Sequences, FiniteSets, TLC

\* ---------------------------------------------------------------- bounds
MaxCalls == 2      \* number of calls the caller issues in one behaviour

\* ------------------------------------------------------------- constants
REDIS_TIMEOUT_MILLISECS == 10

Keys == {"k1"}
Fields == {"f1", "f2"}
\* the string values a caller passes to set: "", "a", "{}"
Strings == {<<>>, <<97>>, <<123, 125>>}

\* ------------------------------------------------- serde_pickle envelope
PROTO == 128            \* 0x80
BINUNICODE == 88        \* 'X'
SHORT_BINUNICODE == 140 \* 0x8c
STOP == 46              \* '.'
DefaultProto == 3
MaxProto == 5

\* four-byte little-endian length
LE32(n) ==
  << n % 256, (n \div 256) % 256, (n \div 65536) % 256, (n \div 16777216) % 256 >>

UnLE32(b, i) ==
  b[i] + 256 * b[i + 1] + 65536 * b[i + 2] + 16777216 * b[i + 3]

\* the length written most significant byte first
Encode_BigEndian(v) ==
  <<PROTO, DefaultProto, BINUNICODE>>
    \o <<0, 0, 0, Len(v)>> \o v \o <<STOP>>

\* serde_pickle::to_vec(&v, Default::default()): PROTO 3, BINUNICODE len v, STOP
Encode(v) ==
  <<PROTO, DefaultProto, BINUNICODE>> \o LE32(Len(v)) \o v \o <<STOP>>

PickleOk(s) == [ok |-> TRUE, val |-> s]
PickleErr == [ok |-> FALSE, val |-> <<>>]

\* the opcode loop of serde_pickle::from_slice, for the opcodes a pickled
\* string uses; the value on top of the stack at STOP is the result, and
\* bytes after STOP are an error
RECURSIVE DecodeFrom(_, _, _)
DecodeFrom(b, i, stack) ==
  IF i > Len(b) THEN PickleErr
  ELSE IF b[i] = PROTO THEN
    IF i + 1 <= Len(b) /\ b[i + 1] <= MaxProto
    THEN DecodeFrom(b, i + 2, stack) ELSE PickleErr
  ELSE IF b[i] = BINUNICODE THEN
    IF i + 4 <= Len(b) /\ i + 4 + UnLE32(b, i + 1) <= Len(b)
    THEN DecodeFrom(b, i + 5 + UnLE32(b, i + 1),
                    Append(stack, SubSeq(b, i + 5, i + 4 + UnLE32(b, i + 1))))
    ELSE PickleErr
  ELSE IF b[i] = SHORT_BINUNICODE THEN
    IF i + 1 <= Len(b) /\ i + 1 + b[i + 1] <= Len(b)
    THEN DecodeFrom(b, i + 2 + b[i + 1],
                    Append(stack, SubSeq(b, i + 2, i + 1 + b[i + 1])))
    ELSE PickleErr
  ELSE IF b[i] = STOP THEN
    IF Len(stack) > 0 /\ i = Len(b) THEN PickleOk(stack[Len(stack)])
    ELSE PickleErr
  ELSE PickleErr

\* serde_pickle::from_slice(&raw_bytes, Default::default()) into a String
Decode(b) == DecodeFrom(b, 1, <<>>)

\* ------------------------------------------------------ the remote store
\* A key holds nothing, a string (bytes), a hash or a sorted set.
Absent == <<-1>>                   \* marks a field the hash does not have
NoFields == [f \in Fields |-> Absent]
Nil == [ty |-> "none", bytes |-> <<>>, hash |-> NoFields, zset |-> <<>>]
StrVal(b) == [ty |-> "string", bytes |-> b, hash |-> NoFields, zset |-> <<>>]
HashVal(h) == [ty |-> "hash", bytes |-> <<>>, hash |-> h, zset |-> <<>>]
ZsetVal(z) == [ty |-> "zset", bytes |-> <<>>, hash |-> NoFields, zset |-> z]

\* The store's counters are signed 64-bit; TLC's integers are 32-bit,
\* so the counter range is modelled nine decimal digits wide. Going past
\* either end is the store's overflow error, as for 64 bits.
CounterDigits == 9
CounterMax == 999999999
CounterMin == -999999999

IsDigit(c) == c >= 48 /\ c <= 57

RECURSIVE DigitsVal(_)
DigitsVal(s) ==
  IF Len(s) = 0 THEN 0
  ELSE 10 * DigitsVal(SubSeq(s, 1, Len(s) - 1)) + (s[Len(s)] - 48)

\* digits only, none but the single "0" starting with '0'
PlainDigits(s) ==
  /\ Len(s) >= 1 /\ Len(s) <= CounterDigits
  /\ \A i \in 1..Len(s) : IsDigit(s[i])
  /\ (s[1] = 48 => Len(s) = 1)

\* the store's strict string -> integer conversion
ParseInt(s) ==
  IF PlainDigits(s) THEN [ok |-> TRUE, n |-> DigitsVal(s)]
  ELSE IF Len(s) >= 2 /\ s[1] = 45 /\ PlainDigits(Tail(s)) /\ s[2] # 48
    THEN [ok |-> TRUE, n |-> 0 - DigitsVal(Tail(s))]
  ELSE [ok |-> FALSE, n |-> 0]

RECURSIVE NatStr(_)
NatStr(n) == IF n < 10 THEN <<48 + n>> ELSE Append(NatStr(n \div 10), 48 + (n % 10))

FormatInt(n) == IF n < 0 THEN <<45>> \o NatStr(0 - n) ELSE NatStr(n)

\* what the store answers: an error, nil, a bulk string or a list of strings
ReplyErr == [ok |-> FALSE, nil |-> FALSE, bytes |-> <<>>, list |-> <<>>]
ReplyNil == [ok |-> TRUE, nil |-> TRUE, bytes |-> <<>>, list |-> <<>>]
ReplyBulk(b) == [ok |-> TRUE, nil |-> FALSE, bytes |-> b, list |-> <<>>]
ReplyList(l) == [ok |-> TRUE, nil |-> FALSE, bytes |-> <<>>, list |-> l]
ReplyDone == ReplyBulk(<<>>)       \* OK or an integer nobody reads

Effect(st, r) == [store |-> st, reply |-> r]

\* a GET that takes the value away (GETDEL)
ExecGet_Consume(st, c) ==
  IF st[c.k].ty = "none" THEN Effect(st, ReplyNil)
  ELSE IF st[c.k].ty = "string"
    THEN Effect([st EXCEPT ![c.k] = Nil], ReplyBulk(st[c.k].bytes))
  ELSE Effect(st, ReplyErr)

\* GET k
ExecGet(st, c) ==
  IF st[c.k].ty = "none" THEN Effect(st, ReplyNil)
  ELSE IF st[c.k].ty = "string" THEN Effect(st, ReplyBulk(st[c.k].bytes))
  ELSE Effect(st, ReplyErr)

\* SET k bytes
ExecSet(st, c) == Effect([st EXCEPT ![c.k] = StrVal(c.bytes)], ReplyDone)

\* a DEL that removes nothing
ExecDel_Keep(st, c) == Effect(st, ReplyDone)

\* DEL k
ExecDel(st, c) == Effect([st EXCEPT ![c.k] = Nil], ReplyDone)

\* HGET k f
ExecHget(st, c) ==
  IF st[c.k].ty = "none" THEN Effect(st, ReplyNil)
  ELSE IF st[c.k].ty = "hash" THEN
    IF st[c.k].hash[c.f] = Absent THEN Effect(st, ReplyNil)
    ELSE Effect(st, ReplyBulk(st[c.k].hash[c.f]))
  ELSE Effect(st, ReplyErr)

\* HINCRBY k f amount
HincrOld(st, c) ==
  IF st[c.k].ty = "none" \/ st[c.k].hash[c.f] = Absent
  THEN [ok |-> TRUE, n |-> 0] ELSE ParseInt(st[c.k].hash[c.f])

ExecHincr(st, c) ==
  IF st[c.k].ty \notin {"none", "hash"} THEN Effect(st, ReplyErr)
  ELSE IF ~HincrOld(st, c).ok THEN Effect(st, ReplyErr)
  ELSE IF HincrOld(st, c).n + c.amount > CounterMax
          \/ HincrOld(st, c).n + c.amount < CounterMin THEN Effect(st, ReplyErr)
  ELSE Effect([st EXCEPT ![c.k] =
                 HashVal([st[c.k].hash EXCEPT
                            ![c.f] = FormatInt(HincrOld(st, c).n + c.amount)])],
              ReplyDone)

\* ZRANGEBYSCORE k min max over a set kept in score order
RECURSIVE InRange(_, _, _)
InRange(z, lo, hi) ==
  IF Len(z) = 0 THEN <<>>
  ELSE IF z[1].score >= lo /\ z[1].score <= hi
    THEN <<z[1].member>> \o InRange(Tail(z), lo, hi)
  ELSE InRange(Tail(z), lo, hi)

ExecZrange(st, c) ==
  IF st[c.k].ty \notin {"none", "zset"} THEN Effect(st, ReplyErr)
  ELSE IF ~ParseInt(c.min).ok \/ ~ParseInt(c.max).ok THEN Effect(st, ReplyErr)
  ELSE Effect(st, ReplyList(InRange(st[c.k].zset, ParseInt(c.min).n, ParseInt(c.max).n)))

Exec(st, c) ==
  CASE c.op = "get" -> ExecGet(st, c)
    [] c.op = "set" -> ExecSet(st, c)
    [] c.op = "del" -> ExecDel(st, c)
    [] c.op = "hget" -> ExecHget(st, c)
    [] c.op = "hincrby" -> ExecHincr(st, c)
    [] c.op = "zrangebyscore" -> ExecZrange(st, c)

\* ------------------------------------------------------------ the errors
NoErr == [ty |-> "none", kind |-> "none"]
NotFound == [ty |-> "CustomRedisError", kind |-> "NotFound"]

\* the #[from] conversions of CustomRedisError
FromCustom(src) ==
  [ty |-> "CustomRedisError",
   kind |-> CASE src = "serde_pickle::Error" -> "PickleError"
              [] src = "RedisError" -> "Other"
              [] src = "Elapsed" -> "Timeout"]

\* anyhow::Error::from keeps the source error as it is
FromAnyhow(src) == [ty |-> "anyhow::Error", kind |-> src]

\* zrangebyscore and set are declared to return anyhow's Result, the other
\* four Result<_, CustomRedisError>
ReturnsAnyhow(op) == op \in {"zrangebyscore", "set"}

\* what `?` makes of an error of type src inside operation op
Question(op, src) == IF ReturnsAnyhow(op) THEN FromAnyhow(src) ELSE FromCustom(src)

OkUnit == [ok |-> TRUE, str |-> <<>>, list |-> <<>>, err |-> NoErr]
OkStr(s) == [ok |-> TRUE, str |-> s, list |-> <<>>, err |-> NoErr]
OkList(l) == [ok |-> TRUE, str |-> <<>>, list |-> l, err |-> NoErr]
Err(e) == [ok |-> FALSE, str |-> <<>>, list |-> <<>>, err |-> e]

\* ------------------------------------------------- after the timeout race
\* Vec<u8> from the reply: nil converts to the empty vector
VecU8(r) == IF r.nil THEN <<>> ELSE r.bytes

\* zrangebyscore: Ok(fut?)
ZrangeFinish(r) ==
  IF r.ok THEN OkList(r.list) ELSE Err(Question("zrangebyscore", "RedisError"))

\* hincrby: fut.map_err(CustomRedisError::from)
HincrFinish(r) == IF r.ok THEN OkUnit ELSE Err(FromCustom("RedisError"))

\* get without the check for an empty vector
GetFinish_NoEmptyCheck(r) ==
  IF ~r.ok THEN Err(Question("get", "RedisError"))
  ELSE IF Decode(VecU8(r)).ok THEN OkStr(Decode(VecU8(r)).val)
  ELSE Err(Question("get", "serde_pickle::Error"))

\* get: NotFound on an empty vector, else fut?, else the pickle decoding
GetFinish(r) ==
  IF r.ok /\ VecU8(r) = <<>> THEN Err(NotFound)
  ELSE IF ~r.ok THEN Err(Question("get", "RedisError"))
  ELSE IF Decode(VecU8(r)).ok THEN OkStr(Decode(VecU8(r)).val)
  ELSE Err(Question("get", "serde_pickle::Error"))

\* set: Ok(fut?)
SetFinish(r) == IF r.ok THEN OkUnit ELSE Err(Question("set", "RedisError"))

\* del: fut.map_err(CustomRedisError::from)
DelFinish(r) == IF r.ok THEN OkUnit ELSE Err(FromCustom("RedisError"))

\* hget unpickling the field as get does the value
HgetFinish_Decoding(r) ==
  IF ~r.ok THEN Err(Question("hget", "RedisError"))
  ELSE IF r.nil THEN Err(NotFound)
  ELSE IF Decode(r.bytes).ok THEN OkStr(Decode(r.bytes).val)
  ELSE Err(Question("hget", "serde_pickle::Error"))

\* hget: fut? then Some(value) => Ok(value), None => NotFound
HgetFinish(r) ==
  IF ~r.ok THEN Err(Question("hget", "RedisError"))
  ELSE IF r.nil THEN Err(NotFound)
  ELSE OkStr(r.bytes)

Finish(op, r) ==
  CASE op = "zrangebyscore" -> ZrangeFinish(r)
    [] op = "hincrby" -> HincrFinish(r)
    [] op = "get" -> GetFinish(r)
    [] op = "set" -> SetFinish(r)
    [] op = "del" -> DelFinish(r)
    [] op = "hget" -> HgetFinish(r)

\* Option<i32>
None == [some |-> FALSE, n |-> 0]
Some(n) == [some |-> TRUE, n |-> n]
UnwrapOr_Zero(o, d) == IF o.some THEN o.n ELSE 0
UnwrapOr(o, d) == IF o.some THEN o.n ELSE d

\* ---------------------------------------------------------------- inputs
Counts == {None, Some(1), Some(2)}
HincrFields == {"f1"}              \* the field hincrby counts in; hget asks for both
Mins == {<<48>>, <<97>>}           \* "0", "a"
Maxs == {<<57>>}                   \* "9"

InitValues ==
  { Nil,
    StrVal(Encode(<<97>>)),                         \* written by set("a")
    StrVal(<<>>),                                   \* an empty string value
    StrVal(<<97>>),                                 \* not an envelope
    HashVal([NoFields EXCEPT !["f1"] = <<49>>]),    \* f1 = "1"
    HashVal([NoFields EXCEPT !["f1"] = <<97>>]),    \* f1 = "a"
    HashVal([NoFields EXCEPT !["f1"] = FormatInt(CounterMax)]),
    ZsetVal(<< [score |-> 1, member |-> <<97>>],
               [score |-> 12, member |-> <<49>>] >>) }

\* ----------------------------------------------------------------- state
VARIABLES
  store,     \* the remote store: key -> value
  pc,        \* where the caller's current call is: idle, connecting, awaiting
  call,      \* the current call and its arguments
  waited,    \* milliseconds the current await has gone without an answer
  cmd,       \* the command of the current call on its connection, and once
             \* executed the reply, the value the key had and its last writer
  orphans,   \* commands of timed-out calls that may still reach the store
  ret,       \* the call that returned last: its outcome, how it ended
             \* (connect, reply, error, timeout) and its command
  prev,      \* the call that returned before ret: what it was, whether it
             \* succeeded, and for a del the value it removed
  ncalls,    \* calls started so far
  lastw,     \* key -> id of the command that wrote it last (0: nobody yet)
  execs      \* id -> how often the store has executed that call's command

vars == <<store, pc, call, waited, cmd, orphans, ret, prev, ncalls, lastw, execs>>

Ids == 1..MaxCalls

NoCall ==
  [id |-> 0, op |-> "none", k |-> "k1", f |-> "f1", v |-> <<>>, count |-> None,
   min |-> <<>>, max |-> <<>>, bytes |-> <<>>]

NoCommand ==
  [id |-> 0, op |-> "none", k |-> "k1", f |-> "f1", bytes |-> <<>>, amount |-> 0,
   min |-> <<>>, max |-> <<>>]

NoCmd == [state |-> "none", c |-> NoCommand, reply |-> ReplyNil, seen |-> Nil, writer |-> 0]

NoRet == [call |-> NoCall, out |-> OkUnit, how |-> "none", cmd |-> NoCmd]

NoPrev ==
  [id |-> 0, op |-> "none", k |-> "k1", v |-> <<>>, ok |-> FALSE, removed |-> Nil]

Summary(r) ==
  [id |-> r.call.id, op |-> r.call.op, k |-> r.call.k, v |-> r.call.v, ok |-> r.out.ok,
   removed |-> IF r.call.op = "del" THEN r.cmd.seen ELSE Nil]

Writes(op) == op \in {"set", "del", "hincrby"}

Init ==
  /\ store \in [Keys -> InitValues]
  /\ pc = "idle"
  /\ call = NoCall
  /\ waited = 0
  /\ cmd = NoCmd
  /\ orphans = {}
  /\ ret = NoRet
  /\ prev = NoPrev
  /\ ncalls = 0
  /\ lastw = [k \in Keys |-> 0]
  /\ execs = [i \in Ids |-> 0]

\* ------------------------------------------------------- starting a call
Begin(c) ==
  /\ pc = "idle"
  /\ ncalls < MaxCalls
  /\ ncalls' = ncalls + 1
  /\ call' = [c EXCEPT !.id = ncalls + 1]
  /\ pc' = "connecting"
  /\ waited' = 0
  /\ UNCHANGED <<store, cmd, orphans, ret, prev, lastw, execs>>

zrangebyscore(k, min, max) ==
  Begin([NoCall EXCEPT !.op = "zrangebyscore", !.k = k, !.min = min, !.max = max])

hincrby(k, v, count) ==
  Begin([NoCall EXCEPT !.op = "hincrby", !.k = k, !.f = v, !.count = count])

get(k) == Begin([NoCall EXCEPT !.op = "get", !.k = k])

\* set writing the string as it is
set_Unpickled(k, v) == Begin([NoCall EXCEPT !.op = "set", !.k = k, !.v = v, !.bytes = v])

\* the value is pickled before the connection is asked for
set(k, v) == Begin([NoCall EXCEPT !.op = "set", !.k = k, !.v = v, !.bytes = Encode(v)])

del(k) == Begin([NoCall EXCEPT !.op = "del", !.k = k])

hget(k, field) == Begin([NoCall EXCEPT !.op = "hget", !.k = k, !.f = field])

\* --------------------------------------------------------- the call runs
\* the command the call puts on its connection
Command(c) ==
  [id |-> c.id, op |-> c.op, k |-> c.k, f |-> c.f, bytes |-> c.bytes,
   amount |-> IF c.op = "hincrby" THEN UnwrapOr(c.count, 1) ELSE 0,
   min |-> c.min, max |-> c.max]

Return(out, how) ==
  /\ ret' = [call |-> call, out |-> out, how |-> how, cmd |-> cmd]
  /\ prev' = Summary(ret)
  /\ pc' = "idle"
  /\ call' = NoCall
  /\ cmd' = NoCmd
  /\ waited' = 0

\* get_async_connection().await succeeds and the command is sent
ConnectOk ==
  /\ pc = "connecting"
  /\ pc' = "awaiting"
  /\ cmd' = [NoCmd EXCEPT !.state = "sent", !.c = Command(call)]
  /\ waited' = 0
  /\ UNCHANGED <<store, call, orphans, ret, prev, ncalls, lastw, execs>>

\* get_async_connection().await? fails
ConnectErr ==
  /\ pc = "connecting"
  /\ Return(Err(Question(call.op, "RedisError")), "connect")
  /\ UNCHANGED <<store, orphans, ncalls, lastw, execs>>

\* the store stays silent while the connection is being acquired: no timer
\* runs here, the call goes on waiting
ConnectStall ==
  /\ pc = "connecting"
  /\ waited < REDIS_TIMEOUT_MILLISECS
  /\ waited' = REDIS_TIMEOUT_MILLISECS
  /\ UNCHANGED <<store, pc, call, cmd, orphans, ret, prev, ncalls, lastw, execs>>

Applied(c) ==
  /\ store' = Exec(store, c).store
  /\ lastw' = IF Writes(c.op) /\ Exec(store, c).reply.ok
              THEN [lastw EXCEPT ![c.k] = c.id] ELSE lastw
  /\ execs' = [execs EXCEPT ![c.id] = @ + 1]

\* the store executes the command of the current call
StoreExec ==
  /\ cmd.state = "sent"
  /\ Applied(cmd.c)
  /\ cmd' = [cmd EXCEPT !.state = "done", !.reply = Exec(store, cmd.c).reply,
                        !.seen = store[cmd.c.k], !.writer = lastw[cmd.c.k]]
  /\ UNCHANGED <<pc, call, waited, orphans, ret, prev, ncalls>>

\* the reply wins the race against the timer
Deliver ==
  /\ pc = "awaiting"
  /\ cmd.state = "done"
  /\ Return(Finish(call.op, cmd.reply), "reply")
  /\ UNCHANGED <<store, orphans, ncalls, lastw, execs>>

\* the connection fails while the command is awaited
CommandErr ==
  /\ pc = "awaiting"
  /\ Return(Finish(call.op, ReplyErr), "error")
  /\ UNCHANGED <<store, orphans, ncalls, lastw, execs>>

\* timeout(...).await?: the timer wins; the command future is dropped, and a
\* command the store has not executed yet either still reaches it or not
Elapsed ==
  /\ pc = "awaiting"
  /\ \E left \in (IF cmd.state = "sent" THEN {{cmd.c}, {}} ELSE {{}}) :
       orphans' = orphans \cup left
  /\ Return(Err(Question(call.op, "Elapsed")), "timeout")
  /\ UNCHANGED <<store, ncalls, lastw, execs>>

\* the store executes the command of a call that has timed out
OrphanExec ==
  \E c \in orphans :
    /\ Applied(c)
    /\ orphans' = orphans \ {c}
    /\ UNCHANGED <<pc, call, waited, cmd, ret, prev, ncalls>>

Next ==
  \/ \E k \in Keys, min \in Mins, max \in Maxs : zrangebyscore(k, min, max)
  \/ \E k \in Keys, v \in HincrFields, count \in Counts : hincrby(k, v, count)
  \/ \E k \in Keys : get(k)
  \/ \E k \in Keys, v \in Strings : set(k, v)
  \/ \E k \in Keys : del(k)
  \/ \E k \in Keys, field \in Fields : hget(k, field)
  \/ ConnectOk
  \/ ConnectErr
  \/ ConnectStall
  \/ StoreExec
  \/ Deliver
  \/ CommandErr
  \/ Elapsed
  \/ OrphanExec

Spec == Init /\ [][Next]_vars

\* ---------------------------------------------------------------- claims
Other == FromCustom("RedisError")
Timeout == FromCustom("Elapsed")
PickleError == FromCustom("serde_pickle::Error")
ErrorKinds == {NotFound, PickleError, Other, Timeout}

\* the last call returned with the store's reply to its command
Replied(op) == ret.call.op = op /\ ret.how = "reply"

\* the last call is a get that read what the call before it wrote
GetAfter(op) ==
  /\ Replied("get")
  /\ prev.op = op /\ prev.ok /\ prev.k = ret.call.k
  /\ ret.cmd.writer = prev.id

\* C1: when set(k, v) has returned success and the next call is a get(k)
\* that got the store's reply, with the set still the last writer of k when
\* the get was executed, the get returns Ok(v).
C1_SetThenGet == GetAfter("set") => ret.out = OkStr(prev.v)

C1_Witness == GetAfter("set") /\ prev.v # <<>> /\ ret.out = OkStr(prev.v)

\* C2: no call is still waiting once the store has been silent for 10 ms,
\* connection acquisition included, and a call that ended because the store
\* did not answer in time returned the Timeout kind, for all six operations.
C2_SilenceIsTimeout ==
  /\ pc # "idle" => waited < REDIS_TIMEOUT_MILLISECS
  /\ ret.how = "timeout" => ret.out = Err(Timeout)

\* the value a replied get found under its key
Held == ret.cmd.seen

\* C3 as stated: a get that found no value, an empty value, or an envelope
\* that decodes to the empty string, returns NotFound.
C3_EmptyIsNotFound_Stated ==
  (/\ Replied("get")
   /\ \/ Held.ty = "none"
      \/ Held.ty = "string" /\ Held.bytes = <<>>
      \/ Held.ty = "string" /\ Decode(Held.bytes) = PickleOk(<<>>))
  => ret.out = Err(NotFound)

\* C3 amended: a get that found no value or zero stored bytes returns
\* NotFound (not Ok, not Other); a stored envelope of the empty string is
\* returned as the successful empty string.
C3_EmptyIsNotFound ==
  Replied("get") =>
    /\ (Held.ty = "none" \/ (Held.ty = "string" /\ Held.bytes = <<>>))
         => ret.out = Err(NotFound)
    /\ (Held.ty = "string" /\ Decode(Held.bytes) = PickleOk(<<>>))
         => ret.out = OkStr(<<>>)

C3_Witness ==
  /\ Replied("get")
  /\ Held.ty = "string" /\ Held.bytes = <<>>
  /\ ret.out = Err(NotFound)

\* C4: every call that met a failure returned an error of one of the four
\* kinds: Other for a connection or store failure, Timeout for the elapsed
\* timer, PickleError for the codec; never success, never another error.
C4_ClosedErrorSet ==
  /\ ~ret.out.ok => ret.out.err \in ErrorKinds
  /\ ret.how \in {"connect", "error"} => ret.out = Err(Other)
  /\ (ret.how = "reply" /\ ~ret.cmd.reply.ok) => ret.out = Err(Other)
  /\ ret.how = "timeout" => ret.out = Err(Timeout)
  /\ (Replied("get") /\ ret.cmd.reply.ok /\ ret.cmd.reply.bytes # <<>>
        /\ ~Decode(ret.cmd.reply.bytes).ok) => ret.out = Err(PickleError)

\* C5: an hget that got the store's reply returns NotFound when the key does
\* not exist or is a hash without the field, and the field's stored string
\* itself when the field exists.
C5_Hget ==
  Replied("hget") =>
    /\ (Held.ty = "none" \/ (Held.ty = "hash" /\ Held.hash[ret.call.f] = Absent))
         => ret.out = Err(NotFound)
    /\ (Held.ty = "hash" /\ Held.hash[ret.call.f] # Absent)
         => ret.out = OkStr(Held.hash[ret.call.f])

C5_Witness ==
  /\ Replied("hget")
  /\ Held.ty = "hash" /\ Held.hash[ret.call.f] = <<97>>
  /\ ret.out = OkStr(<<97>>)

\* C6: when del(k) has returned success and the next call is a get(k) that
\* got the store's reply, with the del still the last writer of k when the
\* get was executed, the get returns NotFound.
C6_DelThenGet == GetAfter("del") => ret.out = Err(NotFound)

\* the deleted key held the envelope a set had written
C6_Witness ==
  /\ GetAfter("del")
  /\ ret.out = Err(NotFound)
  /\ prev.removed = StrVal(Encode(<<97>>))

\* C7: the bytes set has made of its value v decode to exactly v, are not
\* empty, and are not read back by get as NotFound.
C7_RoundTrip ==
  \A c \in {call, ret.call} :
    c.op = "set" =>
      /\ Decode(c.bytes) = PickleOk(c.v)
      /\ c.bytes # <<>>
      /\ GetFinish(ReplyBulk(c.bytes)) = OkStr(c.v)

C7_Witness ==
  /\ ret.call.op = "set" /\ ret.out.ok /\ ret.call.v # <<>>
  /\ call.op = "set" /\ call.v = <<>> /\ cmd.state = "done"

\* the store executes the command of the current call in this step
ExecStep == cmd.state = "sent" /\ cmd'.state = "done"

\* C8: the command of hincrby(k, f, None) is the command of
\* hincrby(k, f, Some(1)); executing it leaves the store and the reply that
\* HINCRBY k f 1 leaves, and on success the field is its old value plus 1.
C8_DefaultAmount ==
  [][(ExecStep /\ call.op = "hincrby" /\ call.count = None) =>
       /\ cmd.c = [Command([call EXCEPT !.count = Some(1)]) EXCEPT !.amount = 1]
       /\ store' = ExecHincr(store, [cmd.c EXCEPT !.amount = 1]).store
       /\ cmd'.reply = ExecHincr(store, [cmd.c EXCEPT !.amount = 1]).reply
       /\ cmd'.reply.ok =>
            ParseInt(store'[call.k].hash[call.f]).n = HincrOld(store, cmd.c).n + 1
    ]_vars

C8_Witness ==
  /\ Replied("hincrby") /\ ret.call.count = None /\ ret.out.ok
  /\ Held.ty = "hash" /\ Held.hash[ret.call.f] = <<49>>
  /\ store[ret.call.k].hash[ret.call.f] = <<50>>

\* C9: a call whose timer fired returned Timeout without having been given
\* a reply, and the store executes the command of a call at most once.
C9_TimeoutCancels ==
  /\ ret.how = "timeout" => ret.out = Err(Timeout)
  /\ \A i \in Ids : execs[i] <= 1
  /\ \A c \in orphans : c.id # call.id

\* a command leaves the connection or the orphans for the store in this step
Executing(c) ==
  \/ ExecStep /\ c = cmd.c
  \/ c \in orphans /\ c \notin orphans'

Reads(op) == op \in {"get", "hget", "zrangebyscore"}

\* C10: the store executing a get, hget or zrangebyscore command leaves the
\* store as it is, a call that returns from a failed connection changes
\* nothing in that step, and its command never reaches the store.
C10_Frame ==
  /\ [][/\ \A c \in {cmd.c} \cup orphans :
             (Executing(c) /\ Reads(c.op)) => store' = store
        /\ (pc = "connecting" /\ pc' = "idle") => store' = store
       ]_vars
  /\ [](ret.how = "connect" => execs[ret.call.id] = 0)

\* a get has read the value, then a set has failed to connect
C10_Witness ==
  /\ prev.op = "get" /\ prev.ok
  /\ ret.call.op = "set" /\ ret.how = "connect" /\ execs[ret.call.id] = 0
  /\ store[ret.call.k] = StrVal(Encode(<<97>>))
  /\ lastw[ret.call.k] = 0

====
